---------------------------- MODULE Spec2Model ----------------------------
(***************************************************************************)
(* doggo-cli, lib/dog-tag.js: the versioned, mergeable secret document and *)
(* the operations on it (init, add, update, delete, merge), with the tag   *)
(* search / disambiguation step and the confirmation prompts.              *)
(*                                                                         *)
(* A JavaScript string is a sequence of one-character strings; an array of *)
(* strings is a sequence of such sequences.  Because the empty array and   *)
(* the empty string are both << >>, the value of an entry's tags field     *)
(* carries its JavaScript kind: [kind |-> "array", val |-> the array] or   *)
(* [kind |-> "string", val |-> <<the string>>].                            *)
(***************************************************************************)
EXTENDS Integers, Sequences, FiniteSets, TLC

\* ------------------------------------------------------------- bounds
MaxChanges == 3        \* changes committed after 'Initialize', all replicas
MaxTags    == 2        \* round-trip inputs: tags in a sequence
MaxTagLen  == 2        \* round-trip inputs: characters in a tag

Replicas == {1, 2}
Actors   == 1 .. MaxChanges      \* actor ids of the processes that commit

\* ------------------------------------------------------------- strings
TagsArray(seq) == [kind |-> "array", val |-> seq]
TagsString(s)  == [kind |-> "string", val |-> <<s>>]

\* /[\s,]/ : the characters the split pattern matches
IsSep(c) == c \in {" ", ","}

RECURSIVE JoinWith(_, _)
JoinWith(seq, sep) ==
    IF Len(seq) = 0 THEN << >>
    ELSE IF Len(seq) = 1 THEN seq[1]
    ELSE seq[1] \o sep \o JoinWith(Tail(seq), sep)

\* internals.slugifyTags = (tags) => tags.join(', ')   (tags an array)
slugifyTags(tags) == JoinWith(tags.val, <<",", " ">>)

\* tags.join is not a function: slugifyTags throws a TypeError on a string
slugifyThrows(tags) == tags.kind # "array"

\* first index >= i of s that is not a separator (Len(s)+1 when none)
RECURSIVE SkipSeps(_, _)
SkipSeps(s, i) ==
    IF i > Len(s) \/ ~IsSep(s[i]) THEN i ELSE SkipSeps(s, i + 1)

\* String.prototype.split with /[\s,]+/g: every maximal run of separators
\* ends the current piece, the pieces before the first and after the last
\* run included, empty or not
RECURSIVE SplitFrom(_, _, _)
SplitFrom(s, i, cur) ==
    IF i > Len(s) THEN <<cur>>
    ELSE IF IsSep(s[i]) THEN <<cur>> \o SplitFrom(s, SkipSeps(s, i), << >>)
    ELSE SplitFrom(s, i + 1, Append(cur, s[i]))

\* internals.getTagsFromString = (str) => str.split(/[\s,]+/g)
getTagsFromString(str) == SplitFrom(str, 1, << >>)


\* ------------------------------------------------- replication engine
\* Automerge, as the interface the code uses.  A document is the set of the
\* changes it has seen: hist the actors of those changes (every process loads
\* the document under a fresh actor id and commits at most one change), ins
\* the list elements ever inserted into secrets, del the elements deleted,
\* version the writes to the version field no later write has overwritten
\* (more than one after a merge of concurrent writes).
HEAD == <<0, 0>>

\* Lamport order of element ids <<counter, actor>>
Later(e, f) == e[1] > f[1] \/ (e[1] = f[1] /\ e[2] > f[2])

\* the list in document order: an element follows the element it was inserted
\* after, concurrent insertions at one place in descending Lamport order
RECURSIVE Subtree(_, _), Siblings(_, _)
Siblings(ins, S) ==
    IF S = {} THEN << >>
    ELSE LET m == CHOOSE e \in S : \A f \in S : f = e \/ Later(e.eid, f.eid)
         IN  <<m>> \o Subtree(ins, m.eid) \o Siblings(ins, S \ {m})
Subtree(ins, parent) == Siblings(ins, {e \in ins : e.after = parent})

Elements(d) == SelectSeq(Subtree(d.ins, HEAD), LAMBDA e : e.eid \notin d.del)

\* instance.secrets
Secrets(d) == [i \in 1 .. Len(Elements(d)) |-> Elements(d)[i].entry]

\* a field written concurrently reads as the write of the highest actor
Winner(writes) == CHOOSE w \in writes : \A x \in writes : x.actor <= w.actor

\* instance.version
Version(d) == Winner(d.version).val

\* Automerge.getHistory(instance).length
HistoryLength(d) == Cardinality(d.hist)

MaxCounter(d) ==
    IF d.ins = {} THEN 0
    ELSE (CHOOSE e \in d.ins : \A f \in d.ins : f.eid[1] <= e.eid[1]).eid[1]

\* the element id at 0-based index i of the visible list, HEAD before the first
ElemIdAt(d, i) == IF i < 0 THEN HEAD ELSE Elements(d)[i + 1].eid

\* Array.prototype.splice(start, deleteCount, ...items) on draft.secrets by
\* actor a, with deleteCount 0 or 1 and at most one item; a negative start
\* counts from the end
Splice(d, a, start, deleteCount, items) ==
    LET n     == Len(Elements(d))
        from  == IF start < 0 THEN (IF n + start < 0 THEN 0 ELSE n + start)
                 ELSE (IF start > n THEN n ELSE start)
        gone  == IF deleteCount > 0 /\ from < n THEN {ElemIdAt(d, from)} ELSE {}
        added == IF Len(items) = 0 THEN {}
                 ELSE {[eid   |-> <<MaxCounter(d) + 1, a>>,
                        after |-> ElemIdAt(d, from - 1),
                        entry |-> items[1]]}
    IN  [d EXCEPT !.ins = @ \cup added, !.del = @ \cup gone]

\* draft.secrets.push(item)
Push(d, a, item) == Splice(d, a, Len(Elements(d)), 0, <<item>>)

\* draft.version = v
SetVersion(d, a, v) == [d EXCEPT !.version = {[actor |-> a, val |-> v]}]

\* instance.updatedAt
UpdatedAt(d) == Winner(d.updatedAt).val

\* draft.updatedAt = t
SetUpdatedAt(d, a, t) == [d EXCEPT !.updatedAt = {[actor |-> a, val |-> t]}]

\* Date.now() in the process of actor a. The processes are numbered in the
\* order they commit, so the number of the process is a reading of a clock
\* that never runs backwards; Initialize happens at 0.
DateNow(a) == a

\* Automerge.change(doc, message, callback): the callback's result, recorded
\* as one more change of the history
Change(d, a, drafted) == [drafted EXCEPT !.hist = d.hist \cup {a}]

\* the writes of x that survive a merge with y: those y has not seen, and
\* those y has seen and not overwritten
Surviving(x, y) == {w \in x.version : w.actor \notin y.hist \/ w \in y.version}

\* the same for the writes to updatedAt
SurvivingUpdatedAt(x, y) ==
    {w \in x.updatedAt : w.actor \notin y.hist \/ w \in y.updatedAt}

\* Automerge.merge(local, remote): local with the changes of remote applied
AutomergeMerge(local, remote) ==
    [hist    |-> local.hist \cup remote.hist,
     ins     |-> local.ins \cup remote.ins,
     del     |-> local.del \cup remote.del,
     version |-> Surviving(local, remote) \cup Surviving(remote, local),
     updatedAt |-> SurvivingUpdatedAt(local, remote)
                       \cup SurvivingUpdatedAt(remote, local)]

\* a merge that drops the remote changes
mergeKeepsLocal(localTag, remoteTag) == localTag

\* exports.merge = (localTag, remoteTag) => Automerge.merge(localTag, remoteTag)
merge(localTag, remoteTag) == AutomergeMerge(localTag, remoteTag)

\* exports.init: Automerge.change(Automerge.init(), 'Initialize', ...)
init ==
    [hist    |-> {0},
     ins     |-> {},
     del     |-> {},
     version |-> {[actor |-> 0, val |-> 1]},       \* draft.version = 1
     updatedAt |-> {[actor |-> 0, val |-> DateNow(0)]}]

\* Uuid.v4(): a fresh identifier; the committing actor is fresh, so its
\* number makes one
Uuid(a) == <<"u", ToString(a)>>

\* ---------------------------------------------------------------- state
VARIABLES
    doc,      \* doc[r]: the document replica r has persisted
    op,       \* the running operation: its position, locals and prompts
    added,    \* the add committed last, until another operation ends
              \* (history, for the add/delete inverse)
    rt,       \* the tag round trip: input, joined form, split result
    io        \* a call seen from outside: its arguments, the capabilities
              \* it has called, the failure raised, how it ended

vars == <<doc, op, added, rt, io>>

\* what the user may type; in the form the tags field is submitted as
\* pre-filled and the secret field as pre-filled or edited
TagInputs        == { <<"a", ",", "b">>, <<"a", ",">> }
SecretInputs     == { <<"p">> }
FormTagInputs    == { }
FormSecretInputs == { <<"q">> }

\* JavaScript's undefined, where an entry is expected
undefined == [id |-> << >>, tags |-> TagsArray(<< >>), secret |-> << >>]

Idle ==
    [name |-> "none", rep |-> 0, pc |-> "idle", instance |-> init,
     results |-> << >>, target |-> undefined, tagsInput |-> << >>,
     selected |-> 0, areYouSure |-> "unasked", areYouReallySure |-> "unasked",
     prompts |-> << >>, channel |-> "none", value |-> "none", commits |-> 0]

\* the arguments a call was given (TRUE: supplied)
NoArgs == [path |-> FALSE, key |-> FALSE, search |-> FALSE, instance |-> FALSE]

NoFault == [at |-> "none", class |-> "none"]

IoIdle ==
    [name |-> "none", pc |-> "idle", args |-> NoArgs, log |-> << >>,
     fault |-> NoFault, invalid |-> FALSE, channel |-> "none"]

RtOff == [pc |-> "off", T |-> << >>, joined |-> << >>, out |-> << >>]

\* the inputs of the round trip: sequences of tags without separators
TagChars == {"a", "b"}
SeqsUpTo(S, n) == UNION {[1 .. k -> S] : k \in 0 .. n}
TagSeqs == SeqsUpTo(SeqsUpTo(TagChars, MaxTagLen), MaxTags)

NoAdd == [rep |-> 0, id |-> << >>, before |-> << >>, after |-> init]

Init ==
    /\ doc = [r \in Replicas |-> init]
    /\ op = Idle
    /\ added = NoAdd
    /\ rt = RtOff
    /\ io = IoIdle

\* Every process loads the document under a fresh random actor id.  Actor
\* ids are compared only between concurrent changes, and concurrent changes
\* commit in either order, so numbering the actors in commit order leaves
\* both outcomes of every comparison reachable.
UsedActors == UNION {doc[r].hist : r \in Replicas}
FreshActors ==
    LET unused == Actors \ UsedActors
    IN  {a \in unused : \A b \in unused : a <= b}

\* ------------------------------------------------------------ prompting
Prompt(type, name, choices, fields) ==
    [type |-> type, name |-> name, choices |-> choices, fields |-> fields]

\* return { output } / return { error } / an error rethrown by Bounce
Return(o, channel, value) ==
    [o EXCEPT !.pc = "done", !.channel = channel, !.value = value]
Throw(o, what) == Return(o, "throw", what)

\* --------------------------------------------------------------- search
\* Fuse's answer: any ranking of any of the items (the matcher is external)
Rankings(n) ==
    {s \in UNION {[1 .. k -> 1 .. n] : k \in 0 .. n} :
        \A i, j \in DOMAIN s : i # j => s[i] # s[j]}

\* new Fuse(list, options).search(search), with keys and without id
Fuse(list, ranking) == [i \in DOMAIN ranking |-> list[ranking[i]]]

\* internals.search: the items Fuse found; they are objects, so neither the
\* all-numbers branch (in effect only on no result, where it maps nothing)
\* nor the options.id branch changes them
search(list, found) == found

\* results.map((r) => slugifyTags(r.tags))
JoinedTags(results) == [i \in DOMAIN results |-> slugifyTags(results[i].tags)]

\* list.find((item) => chosenResult === slugifyTags(item.tags)): the first
\* item in list order whose joined tags are the chosen string; slugifyTags
\* throws on an item before it whose tags are no array
RECURSIVE FindFrom(_, _, _)
FindFrom(list, chosenResult, i) ==
    IF i > Len(list) THEN [threw |-> FALSE, item |-> undefined]
    ELSE IF slugifyThrows(list[i].tags) THEN [threw |-> TRUE, item |-> undefined]
    ELSE IF chosenResult = slugifyTags(list[i].tags)
         THEN [threw |-> FALSE, item |-> list[i]]
    ELSE FindFrom(list, chosenResult, i + 1)

find(list, chosenResult) == FindFrom(list, chosenResult, 1)

\* draft.secrets.findIndex((item) => item.id === id), 0-based, -1 when none
RECURSIVE FindIndexFrom(_, _, _)
FindIndexFrom(list, id, i) ==
    IF i > Len(list) THEN -1
    ELSE IF list[i].id = id THEN i - 1
    ELSE FindIndexFrom(list, id, i + 1)

findIndex(list, id) == FindIndexFrom(list, id, 1)

\* ------------------------------------------------------------ operations
\* Object.assign({}, target, source)
ObjectAssign(target, source) ==
    [k \in DOMAIN target \cup DOMAIN source |->
        IF k \in DOMAIN source THEN source[k] ELSE target[k]]

\* a form that offers the id as well
ChoicesWithId(toUpdate) == {k \in DOMAIN toUpdate : k # "isDoggo"}

\* the form's fields: every key of the entry but 'id' and 'isDoggo'
Choices(toUpdate) == {k \in DOMAIN toUpdate : k # "id" /\ k # "isDoggo"}

\* initial: key !== 'tags' ? value : slugifyTags(value)
Initial(toUpdate, k) ==
    IF k = "tags" THEN slugifyTags(toUpdate[k]) ELSE toUpdate[k]

\* the strings the user may leave in field k of the form
FormInputs(toUpdate, k) ==
    {Initial(toUpdate, k)} \cup
        (IF k = "tags" THEN FormTagInputs
         ELSE IF k = "secret" THEN FormSecretInputs
         ELSE {Uuid(a) : a \in Actors})

\* the form's answer: a string for each field offered.  A string left in the
\* tags field is stored as such, which its kind records.
FormAnswers(toUpdate, fields) ==
    LET typed == UNION {FormInputs(toUpdate, k) : k \in fields}
    IN  {[k \in fields |-> IF k = "tags" THEN TagsString(f[k]) ELSE f[k]] :
            f \in {g \in [fields -> typed] :
                     \A k \in fields : g[k] \in FormInputs(toUpdate, k)}}

\* a delete without the test of toDelete: reading the tags of undefined throws
deleteLocatedUnchecked(o, toDelete) ==
    IF toDelete = undefined \/ slugifyThrows(toDelete.tags)
        THEN Throw([o EXCEPT !.target = toDelete], "TypeError")
    ELSE [o EXCEPT !.target = toDelete, !.pc = "areYouSure",
                   !.prompts = Append(@, Prompt("confirm", "areYouSure", << >>, {}))]

\* exports.delete from toDelete on: not found, or the first confirmation
deleteLocated(o, toDelete) ==
    IF toDelete = undefined
        THEN Return(o, "error", "No result found for search")
    ELSE IF slugifyThrows(toDelete.tags)
        THEN Throw([o EXCEPT !.target = toDelete], "TypeError")
    ELSE [o EXCEPT !.target = toDelete, !.pc = "areYouSure",
                   !.prompts = Append(@, Prompt("confirm", "areYouSure", << >>, {}))]

\* exports.update from toUpdate on: not found, or the form
updateLocated(o, toUpdate) ==
    IF toUpdate = undefined
        THEN Return(o, "output", "No result found for search")
    ELSE IF slugifyThrows(toUpdate.tags)
        THEN Throw([o EXCEPT !.target = toUpdate], "TypeError")
    ELSE [o EXCEPT !.target = toUpdate, !.pc = "form",
                   !.prompts = Append(@, Prompt("form", "edited", << >>,
                                                Choices(toUpdate)))]

located(o, item) ==
    IF o.name = "delete" THEN deleteLocated(o, item) ELSE updateLocated(o, item)

\* a lookup that takes results[0] however many results there are
getSingleFirst(o, list, results) ==
    located([o EXCEPT !.results = results],
            IF Len(results) >= 1 THEN results[1] ELSE undefined)

\* internals.getSingleFromList up to its prompt: one result or none is the
\* answer, several are put to the user as their joined tags
getSingleFromList(o, list, results) ==
    LET found == [o EXCEPT !.results = results]
    IN  IF Len(results) > 1
        THEN IF \E i \in DOMAIN results : slugifyThrows(results[i].tags)
             THEN Throw(found, "TypeError")
             ELSE [found EXCEPT !.pc = "select",
                      !.prompts = Append(@, Prompt("select", "chosenResult",
                                                   JoinedTags(results), {}))]
        ELSE located(found, IF Len(results) = 1 THEN results[1] ELSE undefined)

\* internals.getSingleFromList after the selection
chosen(o, chosenResult) ==
    LET hit == find(Secrets(o.instance), chosenResult)
    IN  IF hit.threw THEN Throw(o, "TypeError") ELSE located(o, hit.item)

\* an add that writes the history length itself as the version
addDraftStale(instance, a, tags, secret) ==
    SetVersion(Push(instance, a,
                    [tags |-> TagsArray(tags), secret |-> secret, id |-> Uuid(a)]),
               a, HistoryLength(instance))

\* a delete that removes the first entry
deleteDraftFirst(instance, a, toDelete) ==
    SetVersion(Splice(instance, a, 0, 1, << >>), a, HistoryLength(instance) + 1)

\* an update that writes a version one too high
updateDraftAhead(instance, a, toUpdate, edited) ==
    SetUpdatedAt(
        SetVersion(Splice(instance, a, findIndex(Secrets(instance), toUpdate.id), 1,
                          <<ObjectAssign(toUpdate, edited)>>),
                   a, HistoryLength(instance) + 2),
        a, DateNow(a))

\* an update that removes the target and appends the replacement
updateDraftAppend(instance, a, toUpdate, edited) ==
    SetUpdatedAt(
        SetVersion(Push(Splice(instance, a, findIndex(Secrets(instance), toUpdate.id),
                               1, << >>),
                        a, ObjectAssign(toUpdate, edited)),
                   a, HistoryLength(instance) + 1),
        a, DateNow(a))

\* the callbacks handed to Automerge.change
addDraft(instance, a, tags, secret) ==
    SetVersion(Push(instance, a,
                    [tags |-> TagsArray(tags), secret |-> secret, id |-> Uuid(a)]),
               a, HistoryLength(instance) + 1)

deleteDraft(instance, a, toDelete) ==
    SetVersion(Splice(instance, a, findIndex(Secrets(instance), toDelete.id), 1, << >>),
               a, HistoryLength(instance) + 1)

updateDraft(instance, a, toUpdate, edited) ==
    SetUpdatedAt(
        SetVersion(Splice(instance, a, findIndex(Secrets(instance), toUpdate.id), 1,
                          <<ObjectAssign(toUpdate, edited)>>),
                   a, HistoryLength(instance) + 1),
        a, DateNow(a))

\* return { output: updatedTag }, which the caller persists
Commit(o, updatedTag) ==
    /\ op' = [Return(o, "output", "updatedTag") EXCEPT !.commits = @ + 1]
    /\ doc' = [doc EXCEPT ![o.rep] = updatedTag]

Start(name, r) == [Idle EXCEPT !.name = name, !.rep = r, !.instance = doc[r]]

\* exports.list: the secrets of the loaded document, or the results of the
\* search when one is given (started, as every operation, while the bound
\* on the processes leaves one to come)
List(r, searched, ranking) ==
    /\ op.pc = "idle" /\ FreshActors # {}
    /\ LET list   == Secrets(doc[r])
           output == IF searched THEN search(list, Fuse(list, ranking)) ELSE list
       IN  op' = Return([Start("list", r) EXCEPT !.results = output],
                        "output", "secrets")
    /\ UNCHANGED <<doc, added, rt, io>>

\* exports.add, to the first prompt
AddStart(r) ==
    /\ op.pc = "idle" /\ FreshActors # {}
    /\ op' = [Start("add", r) EXCEPT !.pc = "tags",
                 !.prompts = <<Prompt("input", "tags", << >>, {})>>]
    /\ UNCHANGED <<doc, added, rt, io>>

\* exports.add, the tags are entered
AddTags(str) ==
    /\ op.name = "add" /\ op.pc = "tags"
    /\ op' = [op EXCEPT !.pc = "secret", !.tagsInput = str,
                 !.prompts = Append(@, Prompt("input", "secret", << >>, {}))]
    /\ UNCHANGED <<doc, added, rt, io>>

\* exports.add, the secret is entered: the change is made
AddSecret(secret, a) ==
    /\ op.name = "add" /\ op.pc = "secret"
    /\ LET tags       == getTagsFromString(op.tagsInput)
           updatedTag == Change(op.instance, a, addDraft(op.instance, a, tags, secret))
       IN  /\ Commit(op, updatedTag)
           /\ added' = [rep |-> op.rep, id |-> Uuid(a),
                        before |-> Secrets(op.instance), after |-> updatedTag]
    /\ UNCHANGED <<rt, io>>

\* exports.delete and exports.update, to the first prompt or the return
LocateStart(name, r, ranking) ==
    /\ op.pc = "idle" /\ FreshActors # {}
    /\ LET list    == Secrets(doc[r])
           results == search(list, Fuse(list, ranking))
       IN  op' = getSingleFromList(Start(name, r), list, results)
    /\ UNCHANGED <<doc, added, rt, io>>

DeleteStart(r, ranking) == LocateStart("delete", r, ranking)

UpdateStart(r, ranking) == LocateStart("update", r, ranking)

\* the selection prompt is answered: the user picks the i-th choice and the
\* prompt returns its name
Select(i) ==
    /\ op.pc = "select"
    /\ op' = chosen([op EXCEPT !.selected = i], JoinedTags(op.results)[i])
    /\ UNCHANGED <<doc, added, rt, io>>

\* a first confirmation whose answer is not looked at
AreYouSureIgnored(areYouSure) ==
    /\ op.pc = "areYouSure"
    /\ op' = [op EXCEPT !.pc = "areYouReallySure",
                 !.areYouSure = IF areYouSure THEN "yes" ELSE "no",
                 !.prompts = Append(@, Prompt("confirm", "areYouReallySure",
                                              << >>, {}))]
    /\ UNCHANGED <<doc, added, rt, io>>

\* exports.delete, the first confirmation is answered
AreYouSure(areYouSure) ==
    /\ op.pc = "areYouSure"
    /\ op' = IF ~areYouSure
             THEN Return([op EXCEPT !.areYouSure = "no"], "error", "Delete cancelled")
             ELSE [op EXCEPT !.pc = "areYouReallySure", !.areYouSure = "yes",
                      !.prompts = Append(@, Prompt("confirm", "areYouReallySure",
                                                   << >>, {}))]
    /\ UNCHANGED <<doc, added, rt, io>>

\* exports.delete, the second confirmation is answered
AreYouReallySure(areYouReallySure, a) ==
    /\ op.pc = "areYouReallySure"
    /\ IF ~areYouReallySure
       THEN /\ op' = Return([op EXCEPT !.areYouReallySure = "no"],
                            "error", "Delete cancelled")
            /\ UNCHANGED <<doc, io>>
       ELSE Commit([op EXCEPT !.areYouReallySure = "yes"],
                   Change(op.instance, a, deleteDraft(op.instance, a, op.target)))
    /\ UNCHANGED <<added, rt, io>>

\* exports.update, the form is answered
Form(edited, a) ==
    /\ op.pc = "form"
    /\ Commit(op, Change(op.instance, a,
                         updateDraft(op.instance, a, op.target, edited)))
    /\ UNCHANGED <<added, rt, io>>

\* the operation has returned; the process ends
Exit ==
    /\ op.pc = "done"
    /\ op' = Idle
    /\ added' = IF op.name = "add" THEN added ELSE NoAdd
    /\ UNCHANGED <<doc, rt, io>>

\* exports.merge(doc[r], doc[s]), kept by replica r
Merge(r, s) ==
    /\ op.pc = "idle" /\ r # s
    /\ doc[r] # merge(doc[r], doc[s])
    /\ doc' = [doc EXCEPT ![r] = merge(doc[r], doc[s])]
    /\ added' = NoAdd
    /\ UNCHANGED <<op, rt, io>>

\* the inputs an action can take in the current state
StartRankings(r) ==
    IF op.pc = "idle" THEN Rankings(Len(Secrets(doc[r]))) ELSE {}
Selectable == IF op.pc = "select" THEN DOMAIN op.results ELSE {}
Editable ==
    IF op.pc = "form" THEN FormAnswers(op.target, Choices(op.target)) ELSE {}

Next ==
    \/ \E r \in Replicas, searched \in BOOLEAN :
          \E ranking \in StartRankings(r) : List(r, searched, ranking)
    \/ \E r \in Replicas : AddStart(r)
    \/ \E str \in TagInputs : AddTags(str)
    \/ \E secret \in SecretInputs, a \in FreshActors : AddSecret(secret, a)
    \/ \E r \in Replicas : \E ranking \in StartRankings(r) : DeleteStart(r, ranking)
    \/ \E r \in Replicas : \E ranking \in StartRankings(r) : UpdateStart(r, ranking)
    \/ \E i \in Selectable : Select(i)
    \/ \E areYouSure \in BOOLEAN : AreYouSure(areYouSure)
    \/ \E areYouReallySure \in BOOLEAN, a \in FreshActors :
          AreYouReallySure(areYouReallySure, a)
    \/ \E a \in FreshActors : \E edited \in Editable : Form(edited, a)
    \/ Exit
    \/ \E r, s \in Replicas : Merge(r, s)

Spec == Init /\ [][Next]_vars

\* ------------------------------------------------- the tag round trip
InitRT ==
    /\ doc = [r \in Replicas |-> init]
    /\ op = Idle
    /\ added = NoAdd
    /\ rt \in {[pc |-> "start", T |-> T, joined |-> << >>, out |-> << >>] :
                 T \in TagSeqs}
    /\ io = IoIdle

\* slugifyTags(T)
RTJoin ==
    /\ rt.pc = "start"
    /\ rt' = [rt EXCEPT !.pc = "joined", !.joined = slugifyTags(TagsArray(rt.T))]
    /\ UNCHANGED <<doc, op, added, io>>

\* getTagsFromString(slugifyTags(T))
RTSplit ==
    /\ rt.pc = "joined"
    /\ rt' = [rt EXCEPT !.pc = "split", !.out = getTagsFromString(rt.joined)]
    /\ UNCHANGED <<doc, op, added, io>>

NextRT == RTJoin \/ RTSplit

SpecRT == InitRT /\ [][NextRT]_vars

\* ------------------------------- arguments, failures and encryptAndSave
\* how a call of a capability (decryption, Automerge, encryption, the file
\* system) ends: well, or by raising an error of one of the classes Bounce
\* calls 'system' (TypeError, RangeError, ...), or by raising another error
\* (a file system error, an error of the encryption adapter)
Outcomes == {"ok", "system", "plain"}

\* catch (error) { Bounce.rethrow(error, 'system'); return { error }; }
Caught(class) == IF class = "system" THEN "throw" ELSE "error"

\* a capability is called, and fails unless the outcome is ok
Attempt(o, effect, outcome) ==
    [o EXCEPT !.log = Append(@, effect),
              !.fault = IF outcome = "ok" THEN @
                        ELSE [at |-> effect, class |-> outcome]]

\* the call ends
IoReturn(o, channel) == [o EXCEPT !.pc = "done", !.channel = channel]

\* Helpers.assert(values, message) throws: one of the values is missing
assertThrows(values) == \E i \in DOMAIN values : ~values[i]

\* internals.getInstance(strOrPath): Automerge.load(await
\* Helpers.getDecrypted(strOrPath))
getInstance(o, decrypt, load) ==
    LET decrypted == Attempt(o, "decrypt", decrypt)
    IN  IF decrypt # "ok" THEN decrypted ELSE Attempt(decrypted, "load", load)

\* Helpers.withErrHandling(func, ...args): the output of the call; an error
\* func threw, or returned as { error }, is thrown
withErrHandling(result) == IF result = "error" THEN "throw" ELSE result

\* exports.list, exports.add, exports.update, exports.delete with the given
\* arguments, to the point where the document is loaded: from there on the
\* operation runs as above. early is the outcome of the decryption add
\* performs first.
Call(name, args, early, decrypt, load) ==
    /\ io.pc = "idle"
    /\ LET started  == [IoIdle EXCEPT !.name = name, !.args = args]
           first    == IF name = "add" THEN Attempt(started, "decrypt", early)
                       ELSE started
           localTag == args.path /\ early = "ok"
           required == IF name = "add" THEN <<localTag, args.key>>
                       ELSE IF name = "update" THEN <<args.path, args.key>>
                       ELSE IF name = "delete"
                           THEN <<args.path, args.key, args.search>>
                       ELSE << >>
           loaded   == getInstance(first, decrypt, load)
           \* internals.getInstance returns { output }, or its catch block
           \* re-throws the error or returns { error }
           result   == IF loaded.fault = NoFault THEN "output"
                       ELSE Caught(loaded.fault.class)
       IN  io' = \* line 51 is outside the try block
                 IF name = "add" /\ early # "ok" THEN IoReturn(first, "throw")
                 ELSE IF assertThrows(required)
                     THEN IoReturn([first EXCEPT !.invalid = TRUE], Caught("plain"))
                 ELSE IF withErrHandling(result) = "throw"
                     THEN IoReturn(loaded, Caught(loaded.fault.class))
                 ELSE IoReturn(loaded, IF name = "list" THEN "output" ELSE "loaded")
    /\ UNCHANGED <<doc, op, added, rt>>

\* a check that looks at the key identifier only
saveArgsMissingKey(keyIdentifier, instance) == ~keyIdentifier

\* if (!keyIdentifier || !instance)
saveArgsMissing(keyIdentifier, instance) == ~keyIdentifier \/ ~instance

\* exports.encryptAndSave(savePath, keyIdentifier, instance), to the first
\* await
EncryptAndSave(keyIdentifier, instance) ==
    /\ io.pc = "idle"
    /\ LET started == [IoIdle EXCEPT !.name = "encryptAndSave",
                          !.args = [NoArgs EXCEPT !.path = TRUE,
                                                  !.key = keyIdentifier,
                                                  !.instance = instance]]
       IN  io' = IF saveArgsMissing(keyIdentifier, instance)
                 THEN IoReturn([started EXCEPT !.invalid = TRUE], Caught("plain"))
                 ELSE [started EXCEPT !.pc = "getAutomergeSave"]
    /\ UNCHANGED <<doc, op, added, rt>>

\* await Helpers.withErrHandling(exports.getAutomergeSave, instance):
\* Automerge.save in a catch block of its own
GetAutomergeSave(outcome) ==
    /\ io.pc = "getAutomergeSave"
    /\ LET saved  == Attempt(io, "serialize", outcome)
           result == IF outcome = "ok" THEN "output" ELSE Caught(outcome)
       IN  io' = IF withErrHandling(result) = "throw"
                 THEN IoReturn(saved, Caught(outcome))
                 ELSE [saved EXCEPT !.pc = "encrypt"]
    /\ UNCHANGED <<doc, op, added, rt>>

\* an encryption whose failure is not looked at
EncryptUnchecked(outcome) ==
    /\ io.pc = "encrypt"
    /\ io' = [Attempt(io, "encrypt", outcome) EXCEPT !.pc = "writeFile"]
    /\ UNCHANGED <<doc, op, added, rt>>

\* await Helpers.withErrHandling(Doggo.api.encrypt, keyIdentifier, ...)
Encrypt(outcome) ==
    /\ io.pc = "encrypt"
    /\ LET encrypted == Attempt(io, "encrypt", outcome)
       IN  io' = IF outcome = "ok" THEN [encrypted EXCEPT !.pc = "writeFile"]
                 ELSE IoReturn(encrypted, Caught(outcome))
    /\ UNCHANGED <<doc, op, added, rt>>

\* await Fs.writeFile(savePath, ...); the function returns nothing
WriteFile(outcome) ==
    /\ io.pc = "writeFile"
    /\ LET written == Attempt(io, "write", outcome)
       IN  io' = IoReturn(written,
                          IF outcome = "ok" THEN "undefined" ELSE Caught(outcome))
    /\ UNCHANGED <<doc, op, added, rt>>

\* the caller has the result
IoExit ==
    /\ io.pc = "done"
    /\ io' = IoIdle
    /\ UNCHANGED <<doc, op, added, rt>>

Calls == {"list", "add", "update", "delete"}

ArgSets == [path : BOOLEAN, key : BOOLEAN, search : BOOLEAN, instance : {FALSE}]

NextIO ==
    \/ \E name \in Calls, args \in ArgSets :
          \E early, decrypt, load \in Outcomes :
              Call(name, args, early, decrypt, load)
    \/ \E keyIdentifier, instance \in BOOLEAN : EncryptAndSave(keyIdentifier, instance)
    \/ \E outcome \in Outcomes : GetAutomergeSave(outcome)
    \/ \E outcome \in Outcomes : Encrypt(outcome)
    \/ \E outcome \in Outcomes : WriteFile(outcome)
    \/ IoExit

SpecIO == Init /\ [][NextIO]_vars

\* ================================================================ claims
HasPrompt(name) == \E i \in DOMAIN op.prompts : op.prompts[i].name = name

\* how many entries of a list carry an id
Count(list, id) == Cardinality({i \in DOMAIN list : list[i].id = id})

Ids(list) == {list[i].id : i \in DOMAIN list}

Locating == op.name \in {"delete", "update"}

\* C1: in a delete, declining the first confirmation shows no second prompt
\* and leaves the document as loaded; declining the second after accepting
\* the first leaves the document as loaded; accepting both commits exactly
\* one change, which removes one entry with the target's id.
TwoStageDelete ==
    op.name = "delete" =>
        /\ op.areYouSure = "no" =>
              /\ ~HasPrompt("areYouReallySure")
              /\ op.areYouReallySure = "unasked"
        /\ op.areYouReallySure # "unasked" => op.areYouSure = "yes"
        /\ op.areYouReallySure # "yes" =>
              /\ op.commits = 0
              /\ doc[op.rep] = op.instance
        /\ op.areYouReallySure = "yes" =>
              /\ op.commits = 1
              /\ HistoryLength(doc[op.rep]) = HistoryLength(op.instance) + 1
              /\ Len(Secrets(doc[op.rep])) = Len(Secrets(op.instance)) - 1
              /\ Count(Secrets(doc[op.rep]), op.target.id)
                    = Count(Secrets(op.instance), op.target.id) - 1

TwoStageDeleteWitness ==
    /\ op.name = "delete" /\ op.pc = "done"
    /\ op.areYouSure = "yes" /\ op.areYouReallySure = "yes"
    /\ op.commits = 1
    /\ Len(Secrets(op.instance)) = 2

\* C2: an update or delete whose search finds nothing returns 'No result
\* found for search' as a result (nothing is thrown), shows no prompt and
\* commits nothing.
NotFoundReported ==
    (Locating /\ Len(op.results) = 0) =>
        /\ op.pc = "done"
        /\ op.channel \in {"output", "error"}
        /\ op.value = "No result found for search"
        /\ op.prompts = << >>
        /\ op.commits = 0
        /\ doc[op.rep] = op.instance

NotFoundReportedWitness ==
    /\ op.name = "delete" /\ Len(op.results) = 0
    /\ Len(Secrets(op.instance)) > 0
    /\ op.pc = "done"

\* C3: with several candidates the first prompt is the selection, listing the
\* joined tags of every candidate, and no confirmation, form or change comes
\* before its answer; with one candidate no selection is shown and that
\* candidate is the target.
SelectionFirst ==
    Locating =>
        /\ (Len(op.results) > 1
               /\ (Len(op.prompts) > 0 \/ op.commits > 0 \/ op.target # undefined)) =>
              /\ op.prompts[1].type = "select"
              /\ op.prompts[1].choices = JoinedTags(op.results)
        /\ op.pc = "select" =>
              /\ Len(op.results) > 1
              /\ Len(op.prompts) = 1
              /\ op.target = undefined
              /\ op.commits = 0
              /\ doc[op.rep] = op.instance
        /\ Len(op.results) = 1 =>
              /\ ~HasPrompt("chosenResult")
              /\ op.target = op.results[1]

SelectionFirstWitness ==
    /\ op.name = "delete" /\ Len(op.results) > 1
    /\ op.pc = "areYouSure"
    /\ Len(op.prompts) = 2

\* C4: a committed update leaves, at the position of the target, an entry
\* with the target's id, whatever the form returned.
UpdateKeepsId ==
    (op.name = "update" /\ op.commits > 0) =>
        LET pos == findIndex(Secrets(op.instance), op.target.id) + 1
        IN  /\ pos >= 1
            /\ Len(Secrets(doc[op.rep])) >= pos
            /\ Secrets(doc[op.rep])[pos].id = op.target.id
            /\ Secrets(op.instance)[pos].id = op.target.id

UpdateKeepsIdWitness ==
    /\ op.name = "update" /\ op.commits > 0
    /\ Secrets(doc[op.rep])[findIndex(Secrets(op.instance), op.target.id) + 1].secret
          # op.target.secret

\* C5: version is 1 after init, and every committed add, update or delete
\* leaves a version greater than the one it was applied to.
VersionIncreases ==
    /\ \A r \in Replicas : Version(doc[r]) = 1
    /\ [][\A r \in Replicas :
             (op'.commits > op.commits /\ r = op.rep) =>
                 Version(doc'[r]) > Version(doc[r])]_vars

\* init, add, delete: versions 1, 2, 3
VersionIncreasesWitness ==
    /\ op.name = "delete" /\ op.commits = 1
    /\ HistoryLength(op.instance) = 2
    /\ Version(op.instance) = 2
    /\ Version(doc[op.rep]) = 3
    /\ Secrets(doc[op.rep]) = << >>

\* C6: deleting the entry an add has just appended gives back the secrets
\* the add was applied to.
AddDeleteInverse ==
    (/\ op.name = "delete" /\ op.commits = 1
     /\ added.rep = op.rep /\ added.after = op.instance
     /\ op.target.id = added.id)
        => Secrets(doc[op.rep]) = added.before

AddDeleteInverseWitness ==
    /\ op.name = "delete" /\ op.commits = 1
    /\ added.rep = op.rep /\ added.after = op.instance
    /\ op.target.id = added.id
    /\ Len(added.before) > 0

\* the entries of a list that carry an id, in list order
WithId(list, id) == SelectSeq(list, LAMBDA e : e.id = id)

TagsStayArray ==
    \A r \in Replicas : \A i \in DOMAIN Secrets(doc[r]) :
        Secrets(doc[r])[i].tags.kind = "array"

\* C9: the tags an add stores contain no empty string.
AddTrimsEmpties ==
    (op.name = "add" /\ op.commits = 1) =>
        \A i \in DOMAIN Secrets(doc[op.rep]) :
            Secrets(doc[op.rep])[i].id = added.id =>
                \A j \in DOMAIN Secrets(doc[op.rep])[i].tags.val :
                    Secrets(doc[op.rep])[i].tags.val[j] # << >>

\* C10: splitting the joined form of a sequence of separator-free tags gives
\* the sequence back.
TagRoundTrip == rt.pc = "split" => rt.out = rt.T

\* the terminal state of a delete that has returned
Terminal ==
    IF op.channel = "output" /\ op.value = "updatedTag" THEN "Applied"
    ELSE IF op.channel = "error" /\ op.value = "Delete cancelled" THEN "Cancelled"
    ELSE IF op.channel = "error" /\ op.value = "No result found for search"
        THEN "NotFound"
    ELSE "none"

\* C12: a delete that has ended is in one of the terminal states Applied,
\* Cancelled, NotFound; Applied only after the target was located and both
\* confirmations were accepted, in this order; NotFound only with no result.
DeleteTerminates ==
    (op.name = "delete" /\ op.pc = "done") =>
        /\ Terminal \in {"Applied", "Cancelled", "NotFound"}
        /\ Terminal = "Applied" =>
              /\ op.target # undefined
              /\ op.areYouSure = "yes" /\ op.areYouReallySure = "yes"
              /\ \E i, j \in DOMAIN op.prompts :
                    /\ i < j
                    /\ op.prompts[i].name = "areYouSure"
                    /\ op.prompts[j].name = "areYouReallySure"
        /\ Terminal = "NotFound" => Len(op.results) = 0

\* C18: after a selection among several results the target is the candidate
\* the user selected, one of the results.
SelectedIsTarget ==
    (Locating /\ op.selected > 0 /\ op.target # undefined) =>
        /\ op.target = op.results[op.selected]
        /\ \E i \in DOMAIN op.results : op.results[i] = op.target

\* C19: the version of a document never exceeds the length of its history,
\* on merged documents too, and a committed change leaves a version greater
\* than that of the document it was applied to.
VersionWithinHistory ==
    /\ \A r \in Replicas : Version(doc[r]) <= HistoryLength(doc[r])
    /\ \A r, s \in Replicas :
          Version(merge(doc[r], doc[s])) <= HistoryLength(merge(doc[r], doc[s]))
    /\ op.commits > 0 =>
          /\ Version(op.instance) <= HistoryLength(op.instance)
          /\ Version(doc[op.rep]) = HistoryLength(op.instance) + 1
          /\ Version(doc[op.rep]) > Version(op.instance)

\* a change committed on a merged document whose version was behind its history
VersionWithinHistoryWitness ==
    /\ op.commits > 0
    /\ Version(op.instance) < HistoryLength(op.instance)
    /\ Version(doc[op.rep]) > Version(op.instance) + 1

\* the process whose change the operation has committed
Committer == CHOOSE a \in doc[op.rep].hist : a \notin op.instance.hist

\* C11: after a committed add, update or delete the document's updatedAt is
\* the time of that mutation, and a list leaves the document, updatedAt
\* included, as it was.
UpdatedAtIsLastMutation ==
    /\ (op.pc = "done" /\ op.commits > 0) =>
          UpdatedAt(doc[op.rep]) = DateNow(Committer)
    /\ (op.pc = "done" /\ op.name = "list") => doc[op.rep] = op.instance

\* the list without its i-th entry
Without(list, i) ==
    [j \in 1 .. Len(list) - 1 |-> IF j < i THEN list[j] ELSE list[j + 1]]

\* C17: a committed delete removes the entry with the target's id, the only
\* one, and leaves the others in their order; a committed update keeps the
\* length, puts the replacement where the target was and leaves every other
\* entry as it was.
TouchesOnlyTarget ==
    (op.pc = "done" /\ op.commits > 0 /\ op.name \in {"delete", "update"}) =>
        LET before == Secrets(op.instance)
            after  == Secrets(doc[op.rep])
        IN  /\ op.name = "delete" =>
                  /\ Count(after, op.target.id) = 0
                  /\ \E i \in DOMAIN before :
                        before[i] = op.target /\ after = Without(before, i)
            /\ op.name = "update" =>
                  /\ Len(after) = Len(before)
                  /\ \E i \in DOMAIN before :
                        /\ before[i] = op.target
                        /\ after[i].id = op.target.id
                        /\ \A j \in DOMAIN before \ {i} : after[j] = before[j]

\* an update of the first of two entries
TouchesOnlyTargetWitness ==
    /\ op.pc = "done" /\ op.commits > 0 /\ op.name = "update"
    /\ Len(Secrets(op.instance)) = 2
    /\ Secrets(op.instance)[1] = op.target
    /\ Secrets(doc[op.rep])[2] = Secrets(op.instance)[2]

\* a call of add, update or delete without one of its required arguments
MissingArgument ==
    /\ io.name \in {"add", "update", "delete"}
    /\ \/ ~io.args.path
       \/ ~io.args.key
       \/ io.name = "delete" /\ ~io.args.search

\* C13: a call without a required argument ends with { error }, nothing
\* thrown, and without a decryption, a load, a prompt or a change.
ValidationFirst ==
    (io.pc = "done" /\ MissingArgument) =>
        /\ io.channel = "error"
        /\ io.log = << >>
        /\ op.prompts = << >> /\ op.commits = 0

\* C14: a failure of the encryption capability, the replication engine or
\* the storage ends the call by a throw, never by { error }, and a failed
\* validation is never thrown.
FailuresRethrown ==
    io.pc = "done" =>
        /\ io.fault # NoFault => io.channel = "throw"
        /\ io.invalid => io.channel = "error"

\* how often encryptAndSave has written
Writes == Cardinality({i \in DOMAIN io.log : io.log[i] = "write"})

\* C15: encryptAndSave writes at most once, as its last step after the
\* serialization and the encryption, both without failure; when one of
\* them fails nothing is written.
WriteIsLast ==
    io.name = "encryptAndSave" =>
        /\ Writes <= 1
        /\ Writes = 1 =>
              /\ io.log = <<"serialize", "encrypt", "write">>
              /\ io.fault.at \notin {"serialize", "encrypt"}
        /\ io.fault.at \in {"serialize", "encrypt"} =>
              /\ Writes = 0
              /\ io.pc = "done" /\ io.channel \in {"error", "throw"}

\* a save that went through
WriteIsLastWitness ==
    /\ io.name = "encryptAndSave" /\ io.pc = "done"
    /\ io.log = <<"serialize", "encrypt", "write">>
    /\ io.fault = NoFault /\ io.channel = "undefined"

\* C16: encryptAndSave without the key identifier or without the document
\* returns { error } and neither serializes, encrypts nor writes.
SaveNeedsKeyAndInstance ==
    (io.name = "encryptAndSave" /\ (~io.args.key \/ ~io.args.instance)) =>
        /\ io.pc = "done"
        /\ io.channel = "error"
        /\ io.log = << >>

\* a save with the key identifier and without the document
SaveNeedsKeyAndInstanceWitness ==
    /\ io.name = "encryptAndSave" /\ io.pc = "done"
    /\ io.args.key /\ ~io.args.instance
    /\ io.channel = "error"

=============================================================================
